---- MODULE Spec2Model ----
(***************************************************************************)
(* vkinfo (vulkan/tools/vkinfo.cpp): a single-threaded tool that creates   *)
(* a Vulkan instance, enumerates the physical devices and, per device,     *)
(* prints its properties, its memory heaps and types and its queue         *)
(* families, dying with exit code 1 on the first failing driver call.      *)
(*                                                                         *)
(* The driver is the environment.  Every driver call returns a result and  *)
(* data chosen nondeterministically from the sets held in `mock` (the fake *)
(* driver backend a run is played against); everything between two driver  *)
(* calls is the program's own code, translated statement by statement.     *)
(*                                                                         *)
(* Representation                                                          *)
(*  - stdout (`out`) and stderr (`err`) are sequences of records, one per  *)
(*    printed line; a line's text is the sequence of string pieces that    *)
(*    were inserted into the stream, in order (Text concatenates them).    *)
(*  - `calls` is the sequence of driver calls made so far.                 *)
(*  - VkResult values are named by their enumerators.                      *)
(*  - props.apiVersion is a 32-bit word, kept as a function from bit       *)
(*    position 0..31 to 0/1 so that bit 31 is representable.               *)
(*  - queue and memory flag words are non-negative integers below 2^31.    *)
(*  - deviceName, deviceType, driverVersion, vendorId, deviceId, heap      *)
(*    sizes are printed by the program but are not modelled.               *)
(***************************************************************************)
EXTENDS Integers, Sequences, FiniteSets, TLC

VARIABLES
    pc,                       \* position in main / DumpPhysicalDevice
    result,                   \* VkResult result
    instance,                 \* the VkInstance: "none", "live", "destroyed"
    calls,                    \* driver calls made, in order
    err,                      \* stderr
    out,                      \* stdout
    exitCode,                 \* -1 while no exit code exists, else 0 or 1
    num_physical_devices,     \* main: uint32_t num_physical_devices
    physical_devices,         \* main: std::vector<VkPhysicalDevice>
    i,                        \* main: loop index
    idx, pdev,                \* DumpPhysicalDevice parameters
    props,                    \* VkPhysicalDeviceProperties
    mem_props,                \* VkPhysicalDeviceMemoryProperties
    heap, type,               \* memory loop indices
    num_queue_families,       \* uint32_t num_queue_families
    queue_family_properties,  \* std::vector<VkQueueFamilyProperties>
    family,                   \* queue family loop index
    qprops,                   \* const VkQueueFamilyProperties& qprops
    queue_flags,              \* int queue_flags
    sep,                      \* const char* sep
    strbuf,                   \* std::ostringstream strbuf
    mock                      \* the driver backend's answers (never changes)

ioVars   == <<calls, err, out, exitCode>>
mainVars == <<instance, num_physical_devices, physical_devices, i>>
memVars  == <<mem_props, heap, type>>
qVars    == <<num_queue_families, queue_family_properties, family, qprops,
              queue_flags, sep>>
vars     == <<pc, result, instance, calls, err, out, exitCode,
              num_physical_devices, physical_devices, i, idx, pdev, props,
              mem_props, heap, type, num_queue_families,
              queue_family_properties, family, qprops, queue_flags, sep,
              strbuf, mock>>

----------------------------------------------------------------------------
(* Bounds of the model. *)

MaxDevices  == 3
MaxFamilies == 2
MaxHeaps    == 2
MaxTypes    == 2

----------------------------------------------------------------------------
(* Enumerators of <vulkan/vulkan.h>. *)

VK_NULL_HANDLE == 0

VK_QUEUE_GRAPHICS_BIT      == 1
VK_QUEUE_COMPUTE_BIT       == 2
VK_QUEUE_DMA_BIT           == 4
VK_QUEUE_SPARSE_MEMMGR_BIT == 8
VK_QUEUE_EXTENDED_BIT      == 1073741824

VK_MEMORY_HEAP_HOST_LOCAL_BIT == 1

VK_MEMORY_PROPERTY_DEVICE_ONLY             == 0
VK_MEMORY_PROPERTY_HOST_VISIBLE_BIT        == 1
VK_MEMORY_PROPERTY_HOST_NON_COHERENT_BIT   == 2
VK_MEMORY_PROPERTY_HOST_UNCACHED_BIT       == 4
VK_MEMORY_PROPERTY_HOST_WRITE_COMBINED_BIT == 8
VK_MEMORY_PROPERTY_LAZILY_ALLOCATED_BIT    == 16

----------------------------------------------------------------------------
(* Integer and bit arithmetic. *)

Min(a, b) == IF a < b THEN a ELSE b

\* a & b on non-negative ints
RECURSIVE BitAnd(_, _)
BitAnd(a, b) ==
    IF a = 0 \/ b = 0 THEN 0
    ELSE (a % 2) * (b % 2) + 2 * BitAnd(a \div 2, b \div 2)

\* a & ~b
BitAndNot(a, b) == a - BitAnd(a, b)

\* __builtin_ffs: one plus the index of the least significant 1-bit, or 0
RECURSIVE builtin_ffs(_)
builtin_ffs(x) ==
    IF x = 0 THEN 0
    ELSE IF x % 2 = 1 THEN 1
    ELSE 1 + builtin_ffs(x \div 2)

\* 32-bit words as functions from bit position to 0/1
Word32FromNat(n) == [b \in 0..31 |-> IF b < 31 THEN (n \div 2^b) % 2 ELSE 0]

\* v >> k (logical, uint32_t)
ShiftRight32(v, k) == [b \in 0..31 |-> IF b + k <= 31 THEN v[b + k] ELSE 0]

\* v & m
And32(v, m) == [b \in 0..31 |-> v[b] * m[b]]

\* the value of a word whose bit 31 is clear (what %u prints)
RECURSIVE Word32Low(_, _)
Word32Low(v, b) == IF b < 0 THEN 0 ELSE v[b] * 2^b + Word32Low(v, b - 1)
Word32ToNat(v) == Word32Low(v, 30)

\* std::vector::resize(n) with value-initialised new elements
Resize(s, n, fill) == [k \in 1..n |-> IF k <= Len(s) THEN s[k] ELSE fill]

----------------------------------------------------------------------------
(* Output records. *)

\* a driver call as the backend saw it: the entry point, the device handle
\* passed (if any), the result returned and the count reported (if any)
Call(proc, handles, r, count) ==
    [proc |-> proc, pdev |-> handles, result |-> r, count |-> count]
Line(kind, index, text) == [kind |-> kind, idx |-> index, text |-> text]
ErrLine(kind, proc, detail) == [kind |-> kind, proc |-> proc, detail |-> detail]

\* the characters of a line: its pieces concatenated
RECURSIVE Text(_)
Text(pieces) == IF pieces = <<>> THEN "" ELSE Head(pieces) \o Text(Tail(pieces))

----------------------------------------------------------------------------
(* The driver backend. *)

Results == {"VK_SUCCESS", "VK_INCOMPLETE", "VK_ERROR_DEVICE_LOST",
            "VK_ERROR_INVALID_VALUE"}

\* a value-initialised VkQueueFamilyProperties (std::vector's fill)
ZeroFamily == [queueFlags |-> 0, queueCount |-> 0, supportsTimestamps |-> FALSE]

\* the records a driver writes for the queue families of a device
DriverFamilies(words) ==
    {[queueFlags |-> w, queueCount |-> 1, supportsTimestamps |-> TRUE] : w \in words}

\* what a read past the end of the vector's storage may yield
GarbageFamilies ==
    {[queueFlags |-> VK_QUEUE_DMA_BIT, queueCount |-> 0, supportsTimestamps |-> FALSE]}

----------------------------------------------------------------------------
(* die, and the label functions. *)

ResultStr(r) ==
    CASE r = "VK_SUCCESS" -> "VK_SUCCESS"
      [] r = "VK_UNSUPPORTED" -> "VK_UNSUPPORTED"
      [] r = "VK_NOT_READY" -> "VK_NOT_READY"
      [] r = "VK_TIMEOUT" -> "VK_TIMEOUT"
      [] r = "VK_EVENT_SET" -> "VK_EVENT_SET"
      [] r = "VK_EVENT_RESET" -> "VK_EVENT_RESET"
      [] r = "VK_INCOMPLETE" -> "VK_INCOMPLETE"
      [] r = "VK_ERROR_OUT_OF_HOST_MEMORY" -> "VK_ERROR_OUT_OF_HOST_MEMORY"
      [] r = "VK_ERROR_OUT_OF_DEVICE_MEMORY" -> "VK_ERROR_OUT_OF_DEVICE_MEMORY"
      [] r = "VK_ERROR_INITIALIZATION_FAILED" -> "VK_ERROR_INITIALIZATION_FAILED"
      [] r = "VK_ERROR_DEVICE_LOST" -> "VK_ERROR_DEVICE_LOST"
      [] r = "VK_ERROR_MEMORY_MAP_FAILED" -> "VK_ERROR_MEMORY_MAP_FAILED"
      [] r = "VK_ERROR_LAYER_NOT_PRESENT" -> "VK_ERROR_LAYER_NOT_PRESENT"
      [] r = "VK_ERROR_EXTENSION_NOT_PRESENT" -> "VK_ERROR_EXTENSION_NOT_PRESENT"
      [] r = "VK_ERROR_INCOMPATIBLE_DRIVER" -> "VK_ERROR_INCOMPATIBLE_DRIVER"
      [] OTHER -> "<unknown VkResult>"

\* die as it would be with exit(0) in place of exit(1)
die_exit0(proc, r) ==
    /\ err' = Append(err, ErrLine("failed", proc, ResultStr(r)))
    /\ exitCode' = 0
    /\ pc' = "exited"

\* [[noreturn]] void die(proc, result): fprintf(stderr, ...); exit(1);
die(proc, r) ==
    /\ err' = Append(err, ErrLine("failed", proc, ResultStr(r)))
    /\ exitCode' = 1
    /\ pc' = "exited"

\* VkQueueFlagBitStr with the DMA and SPARSE labels exchanged
VkQueueFlagBitStr_swapped(bit) ==
    CASE bit = VK_QUEUE_GRAPHICS_BIT -> {[fault |-> FALSE, str |-> "GRAPHICS"]}
      [] bit = VK_QUEUE_COMPUTE_BIT -> {[fault |-> FALSE, str |-> "COMPUTE"]}
      [] bit = VK_QUEUE_DMA_BIT -> {[fault |-> FALSE, str |-> "SPARSE"]}
      [] bit = VK_QUEUE_SPARSE_MEMMGR_BIT -> {[fault |-> FALSE, str |-> "DMA"]}
      [] bit = VK_QUEUE_EXTENDED_BIT -> {[fault |-> FALSE, str |-> "EXT"]}
      [] OTHER -> {[fault |-> TRUE, str |-> ""],
                   [fault |-> FALSE, str |-> "<indeterminate>"],
                   [fault |-> FALSE, str |-> ""]}

\* VkQueueFlagBitStr: the switch has no default and the function no return
\* after it, so for any other value control flows off the end of a non-void
\* function.  The outcomes are a fault (a trap or a bad pointer dereferenced
\* by operator<<) or some string being inserted and the run going on.
VkQueueFlagBitStr(bit) ==
    CASE bit = VK_QUEUE_GRAPHICS_BIT -> {[fault |-> FALSE, str |-> "GRAPHICS"]}
      [] bit = VK_QUEUE_COMPUTE_BIT -> {[fault |-> FALSE, str |-> "COMPUTE"]}
      [] bit = VK_QUEUE_DMA_BIT -> {[fault |-> FALSE, str |-> "DMA"]}
      [] bit = VK_QUEUE_SPARSE_MEMMGR_BIT -> {[fault |-> FALSE, str |-> "SPARSE"]}
      [] bit = VK_QUEUE_EXTENDED_BIT -> {[fault |-> FALSE, str |-> "EXT"]}
      [] OTHER -> {[fault |-> TRUE, str |-> ""],
                   [fault |-> FALSE, str |-> "<indeterminate>"],
                   [fault |-> FALSE, str |-> ""]}

\* the minor field with the mask of the patch field
VersionMinor_widemask(apiVersion) ==
    Word32ToNat(And32(ShiftRight32(apiVersion, 12), Word32FromNat(4095)))

\* the three version fields of the device line
VersionMajor(apiVersion) ==
    Word32ToNat(And32(ShiftRight32(apiVersion, 22), Word32FromNat(1023)))
VersionMinor(apiVersion) ==
    Word32ToNat(And32(ShiftRight32(apiVersion, 12), Word32FromNat(1023)))
VersionPatch(apiVersion) ==
    Word32ToNat(And32(ShiftRight32(apiVersion, 0), Word32FromNat(4095)))

DeviceLine(index, p) ==
    Line("device", index,
         <<VersionMajor(p.apiVersion), VersionMinor(p.apiVersion),
           VersionPatch(p.apiVersion)>>)

\* what the heap line inserts into strbuf
HeapFlagStr(flags) ==
    IF BitAnd(flags, VK_MEMORY_HEAP_HOST_LOCAL_BIT) # 0 THEN <<"HOST_LOCAL">> ELSE <<>>

\* the memory type flags with DEVICE_ONLY tested as "not host visible"
MemoryTypeFlagStr_loose(flags) ==
    (IF BitAnd(flags, VK_MEMORY_PROPERTY_HOST_VISIBLE_BIT) = 0
     THEN <<"DEVICE_ONLY">> ELSE <<>>)
    \o (IF BitAnd(flags, VK_MEMORY_PROPERTY_HOST_VISIBLE_BIT) # 0
        THEN <<"HOST_VISIBLE">> ELSE <<>>)
    \o (IF BitAnd(flags, VK_MEMORY_PROPERTY_HOST_NON_COHERENT_BIT) # 0
        THEN <<" NON_COHERENT">> ELSE <<>>)
    \o (IF BitAnd(flags, VK_MEMORY_PROPERTY_HOST_UNCACHED_BIT) # 0
        THEN <<" UNCACHED">> ELSE <<>>)
    \o (IF BitAnd(flags, VK_MEMORY_PROPERTY_HOST_WRITE_COMBINED_BIT) # 0
        THEN <<" WRITE_COMBINED">> ELSE <<>>)
    \o (IF BitAnd(flags, VK_MEMORY_PROPERTY_LAZILY_ALLOCATED_BIT) # 0
        THEN <<" LAZILY_ALLOCATED">> ELSE <<>>)

\* what the memory type line inserts into strbuf
MemoryTypeFlagStr(flags) ==
    (IF flags = VK_MEMORY_PROPERTY_DEVICE_ONLY THEN <<"DEVICE_ONLY">> ELSE <<>>)
    \o (IF BitAnd(flags, VK_MEMORY_PROPERTY_HOST_VISIBLE_BIT) # 0
        THEN <<"HOST_VISIBLE">> ELSE <<>>)
    \o (IF BitAnd(flags, VK_MEMORY_PROPERTY_HOST_NON_COHERENT_BIT) # 0
        THEN <<" NON_COHERENT">> ELSE <<>>)
    \o (IF BitAnd(flags, VK_MEMORY_PROPERTY_HOST_UNCACHED_BIT) # 0
        THEN <<" UNCACHED">> ELSE <<>>)
    \o (IF BitAnd(flags, VK_MEMORY_PROPERTY_HOST_WRITE_COMBINED_BIT) # 0
        THEN <<" WRITE_COMBINED">> ELSE <<>>)
    \o (IF BitAnd(flags, VK_MEMORY_PROPERTY_LAZILY_ALLOCATED_BIT) # 0
        THEN <<" LAZILY_ALLOCATED">> ELSE <<>>)

\* queue_family_properties[family]: operator[] does no bounds check; past
\* the end it reads whatever lies behind the storage, or faults
ReadFamily(vec, f) ==
    IF f < Len(vec)
    THEN {[fault |-> FALSE, value |-> vec[f + 1]]}
    ELSE {[fault |-> TRUE, value |-> ZeroFamily]}
         \cup {[fault |-> FALSE, value |-> g] : g \in GarbageFamilies}

----------------------------------------------------------------------------
(* main *)

\* result = vkCreateInstance(&create_info, &instance);
CreateInstance ==
    /\ pc = "start"
    /\ \E r \in Results :
         /\ calls' = Append(calls, Call("vkCreateInstance", <<>>, r, <<>>))
         /\ result' = r
         /\ IF r # "VK_SUCCESS"
            THEN /\ die("vkCreateInstance", r)
                 /\ UNCHANGED instance
            ELSE /\ instance' = "live"
                 /\ pc' = "enum_count"
                 /\ UNCHANGED <<err, exitCode>>
    /\ UNCHANGED <<out, num_physical_devices, physical_devices, i, idx, pdev,
                   props, memVars, qVars, strbuf, mock>>

\* vkEnumeratePhysicalDevices(instance, &num_physical_devices, nullptr);
\* std::vector<VkPhysicalDevice> physical_devices(num, VK_NULL_HANDLE);
EnumeratePhysicalDevicesCount ==
    /\ pc = "enum_count"
    /\ \E r \in Results, n \in mock.deviceCounts :
         /\ calls' = Append(calls, Call("vkEnumeratePhysicalDevices (count)", <<>>, r, <<n>>))
         /\ result' = r
         /\ IF r # "VK_SUCCESS"
            THEN /\ die("vkEnumeratePhysicalDevices (count)", r)
                 /\ UNCHANGED <<num_physical_devices, physical_devices>>
            ELSE /\ num_physical_devices' = n
                 /\ physical_devices' = [k \in 1..n |-> VK_NULL_HANDLE]
                 /\ pc' = "enum_data"
                 /\ UNCHANGED <<err, exitCode>>
    /\ UNCHANGED <<out, instance, i, idx, pdev, props, memVars, qVars, strbuf,
                   mock>>

\* what the driver leaves in a buffer of `size` handles when it reports m:
\* the handles of devices 1..m, as far as the buffer goes
DevicesWritten(buffer, m) ==
    [k \in 1..Len(buffer) |-> IF k <= m THEN k ELSE buffer[k]]

\* the size check without its resize
DevicesAfterCheck_noresize(buffer, num) == buffer

\* if (num_physical_devices != physical_devices.size()) { fprintf; resize }
DevicesAfterCheck(buffer, num) ==
    IF num # Len(buffer) THEN Resize(buffer, num, VK_NULL_HANDLE) ELSE buffer

ErrAfterCheck(buffer, num) ==
    IF num # Len(buffer)
    THEN Append(err, ErrLine("decreased", "physical devices", <<Len(buffer), num>>))
    ELSE err

\* vkEnumeratePhysicalDevices(instance, &num, physical_devices.data());
\* the size check; printf("PhysicalDevices:\n"); i = 0
EnumeratePhysicalDevicesData ==
    /\ pc = "enum_data"
    /\ \E r \in Results, m \in mock.deviceReported :
         /\ calls' = Append(calls, Call("vkEnumeratePhysicalDevices (data)", <<>>, r, <<m>>))
         /\ result' = r
         /\ IF r # "VK_SUCCESS"
            THEN /\ die("vkEnumeratePhysicalDevices (data)", r)
                 /\ UNCHANGED <<num_physical_devices, physical_devices, out, i>>
            ELSE /\ num_physical_devices' = m
                 /\ physical_devices' =
                        DevicesAfterCheck(DevicesWritten(physical_devices, m), m)
                 /\ err' = ErrAfterCheck(physical_devices, m)
                 /\ out' = Append(out, Line("header", 0, <<"PhysicalDevices:">>))
                 /\ i' = 0
                 /\ pc' = "dev_loop"
                 /\ UNCHANGED exitCode
    /\ UNCHANGED <<instance, idx, pdev, props, memVars, qVars, strbuf, mock>>

\* for (i = 0; i < physical_devices.size(); i++) DumpPhysicalDevice(i, ...[i]);
DeviceLoop ==
    /\ pc = "dev_loop"
    /\ IF i < Len(physical_devices)
       THEN /\ idx' = i
            /\ pdev' = physical_devices[i + 1]
            /\ pc' = "props"
       ELSE /\ pc' = "destroy"
            /\ UNCHANGED <<idx, pdev>>
    /\ UNCHANGED <<result, ioVars, mainVars, props, memVars, qVars, strbuf, mock>>

\* return 0 without the vkDestroyInstance call
DestroyInstance_skipped ==
    /\ pc = "destroy"
    /\ exitCode' = 0
    /\ pc' = "exited"
    /\ UNCHANGED <<result, calls, err, out, mainVars, idx, pdev, props, memVars,
                   qVars, strbuf, mock>>

\* vkDestroyInstance(instance); return 0;    (its result is not looked at)
DestroyInstance ==
    /\ pc = "destroy"
    /\ \E r \in Results :
         calls' = Append(calls, Call("vkDestroyInstance", <<>>, r, <<>>))
    /\ instance' = "destroyed"
    /\ exitCode' = 0
    /\ pc' = "exited"
    /\ UNCHANGED <<result, err, out, num_physical_devices, physical_devices, i,
                   idx, pdev, props, memVars, qVars, strbuf, mock>>

----------------------------------------------------------------------------
(* DumpPhysicalDevice *)

\* vkGetPhysicalDeviceProperties(pdev, &props); the device line
GetPhysicalDeviceProperties ==
    /\ pc = "props"
    /\ \E r \in Results, v \in mock.apiVersions :
         /\ calls' = Append(calls, Call("vkGetPhysicalDeviceProperties", <<pdev>>, r, <<>>))
         /\ result' = r
         /\ IF r # "VK_SUCCESS"
            THEN /\ die("vkGetPhysicalDeviceProperties", r)
                 /\ UNCHANGED <<props, out>>
            ELSE /\ props' = [apiVersion |-> v]
                 /\ out' = Append(out, DeviceLine(idx, props'))
                 /\ pc' = "memprops"
                 /\ UNCHANGED <<err, exitCode>>
    /\ UNCHANGED <<mainVars, idx, pdev, memVars, qVars, strbuf, mock>>

\* vkGetPhysicalDeviceMemoryProperties(pdev, &mem_props); heap = 0
GetPhysicalDeviceMemoryProperties ==
    /\ pc = "memprops"
    /\ \E r \in Results, layout \in mock.memoryLayouts :
         /\ calls' = Append(calls,
                            Call("vkGetPhysicalDeviceMemoryProperties", <<pdev>>, r, <<>>))
         /\ result' = r
         /\ IF r # "VK_SUCCESS"
            THEN /\ die("vkGetPhysicalDeviceMemoryProperties", r)
                 /\ UNCHANGED <<mem_props, heap>>
            ELSE /\ mem_props' = layout
                 /\ heap' = 0
                 /\ pc' = "heap_loop"
                 /\ UNCHANGED <<err, exitCode>>
    /\ UNCHANGED <<out, mainVars, idx, pdev, props, type, qVars, strbuf, mock>>

\* for (heap = 0; heap < memoryHeapCount; heap++) { heap line; type = 0 ...
HeapLoop ==
    /\ pc = "heap_loop"
    /\ IF heap < mem_props.memoryHeapCount
       THEN /\ out' = Append(out,
                       Line("heap", heap,
                            strbuf \o HeapFlagStr(mem_props.memoryHeaps[heap + 1].flags)))
            /\ strbuf' = <<>>
            /\ type' = 0
            /\ pc' = "type_loop"
       ELSE /\ pc' = "qcount"
            /\ UNCHANGED <<out, strbuf, type>>
    /\ UNCHANGED <<result, calls, err, exitCode, mainVars, idx, pdev, props,
                   mem_props, heap, qVars, mock>>

\* the filter with <= in place of ==
TypeBelongs_upto(memtype, h) == memtype.heapIndex <= h

\* the filter of the inner loop: does this type belong under this heap?
TypeBelongs(memtype, h) == memtype.heapIndex = h

\* for (type = 0; type < memoryTypeCount; type++) { filter; type line }
TypeLoop ==
    /\ pc = "type_loop"
    /\ IF type < mem_props.memoryTypeCount
       THEN /\ IF ~TypeBelongs(mem_props.memoryTypes[type + 1], heap)
               THEN UNCHANGED <<out, strbuf>>
               ELSE /\ out' = Append(out,
                               Line("type", type,
                                    strbuf \o MemoryTypeFlagStr(
                                        mem_props.memoryTypes[type + 1].propertyFlags)))
                    /\ strbuf' = <<>>
            /\ type' = type + 1
            /\ UNCHANGED <<heap, pc>>
       ELSE /\ heap' = heap + 1
            /\ pc' = "heap_loop"
            /\ UNCHANGED <<out, strbuf, type>>
    /\ UNCHANGED <<result, calls, err, exitCode, mainVars, idx, pdev, props,
                   mem_props, qVars, mock>>

\* vkGetPhysicalDeviceQueueFamilyProperties(pdev, &num_queue_families, nullptr);
\* std::vector<VkQueueFamilyProperties> queue_family_properties(num);
GetQueueFamilyCount ==
    /\ pc = "qcount"
    /\ \E r \in Results, n \in mock.familyCounts :
         /\ calls' = Append(calls,
                 Call("vkGetPhysicalDeviceQueueFamilyProperties (count)", <<pdev>>,
                      r, <<n>>))
         /\ result' = r
         /\ IF r # "VK_SUCCESS"
            THEN /\ die("vkGetPhysicalDeviceQueueFamilyProperties (count)", r)
                 /\ UNCHANGED <<num_queue_families, queue_family_properties>>
            ELSE /\ num_queue_families' = n
                 /\ queue_family_properties' = [k \in 1..n |-> ZeroFamily]
                 /\ pc' = "qvalues"
                 /\ UNCHANGED <<err, exitCode>>
    /\ UNCHANGED <<out, mainVars, idx, pdev, props, memVars, family, qprops,
                   queue_flags, sep, strbuf, mock>>

\* what the driver leaves in the buffer when it writes `data`
FamiliesWritten(buffer, data) ==
    [k \in 1..Len(buffer) |-> IF k <= Len(data) THEN data[k] ELSE buffer[k]]

\* vkGetPhysicalDeviceQueueFamilyProperties(pdev, &num, data()); family = 0
GetQueueFamilyValues ==
    /\ pc = "qvalues"
    /\ \E r \in Results, m \in mock.familyReported :
       \E data \in [1..Min(m, Len(queue_family_properties))
                        -> DriverFamilies(mock.queueFlagWords)] :
         /\ calls' = Append(calls,
                 Call("vkGetPhysicalDeviceQueueFamilyProperties (values)", <<pdev>>,
                      r, <<m>>))
         /\ result' = r
         /\ IF r # "VK_SUCCESS"
            THEN /\ die("vkGetPhysicalDeviceQueueFamilyProperties (values)", r)
                 /\ UNCHANGED <<num_queue_families, queue_family_properties, family>>
            ELSE /\ num_queue_families' = m
                 /\ queue_family_properties' =
                        FamiliesWritten(queue_family_properties, data)
                 /\ family' = 0
                 /\ pc' = "family_loop"
                 /\ UNCHANGED <<err, exitCode>>
    /\ UNCHANGED <<out, mainVars, idx, pdev, props, memVars, qprops, queue_flags,
                   sep, strbuf, mock>>

\* for (family = 0; family < num_queue_families; family++) {
\*     qprops = queue_family_properties[family]; sep = ""; queue_flags = ...
\* after the loop DumpPhysicalDevice returns and main's loop does i++
FamilyLoop ==
    /\ pc = "family_loop"
    /\ IF family < num_queue_families
       THEN \E rd \in ReadFamily(queue_family_properties, family) :
              IF rd.fault
              THEN /\ pc' = "crashed"
                   /\ UNCHANGED <<qprops, queue_flags, sep, i>>
              ELSE /\ qprops' = rd.value
                   /\ queue_flags' = rd.value.queueFlags
                   /\ sep' = ""
                   /\ pc' = "flag_loop"
                   /\ UNCHANGED i
       ELSE /\ i' = i + 1
            /\ pc' = "dev_loop"
            /\ UNCHANGED <<qprops, queue_flags, sep>>
    /\ UNCHANGED <<result, ioVars, instance, num_physical_devices,
                   physical_devices, idx, pdev, props, memVars,
                   num_queue_families, queue_family_properties, family, strbuf,
                   mock>>

\* while ((bit = __builtin_ffs(queue_flags)) != 0) { ... }
\* printf("     Queue Family ..."); strbuf.str(std::string()); family++
FlagLoop ==
    /\ pc = "flag_loop"
    /\ IF builtin_ffs(queue_flags) # 0
       THEN \E o \in VkQueueFlagBitStr(2^(builtin_ffs(queue_flags) - 1)) :
              IF o.fault
              THEN /\ pc' = "crashed"
                   /\ UNCHANGED <<strbuf, queue_flags, sep, out, family>>
              ELSE /\ strbuf' = strbuf \o <<sep, o.str>>
                   /\ queue_flags' =
                          BitAndNot(queue_flags, 2^(builtin_ffs(queue_flags) - 1))
                   /\ sep' = "+"
                   /\ UNCHANGED <<pc, out, family>>
       ELSE /\ out' = Append(out, Line("family", family, strbuf))
            /\ strbuf' = <<>>
            /\ family' = family + 1
            /\ pc' = "family_loop"
            /\ UNCHANGED <<queue_flags, sep>>
    /\ UNCHANGED <<result, calls, err, exitCode, mainVars, idx, pdev, props,
                   memVars, num_queue_families, queue_family_properties, qprops,
                   mock>>

----------------------------------------------------------------------------
(* Driver backends and specifications. *)

\* VK_MAKE_VERSION(major, minor, patch) as a 32-bit word
PackVersion(major, minor, patch) ==
    [b \in 0..31 |->
        IF b >= 22 THEN (major \div 2^(b - 22)) % 2
        ELSE IF b >= 12 THEN (minor \div 2^(b - 12)) % 2
        ELSE (patch \div 2^b) % 2]

MemType(h, f) == [heapIndex |-> h, propertyFlags |-> f]

\* heaps alternate host-local and not
HeapList(n) ==
    [k \in 1..n |-> [flags |-> IF k % 2 = 1 THEN VK_MEMORY_HEAP_HOST_LOCAL_BIT ELSE 0]]

Layout(nh, types) ==
    [memoryHeapCount |-> nh, memoryHeaps |-> HeapList(nh),
     memoryTypeCount |-> Len(types), memoryTypes |-> types]

OneLayout ==
    Layout(1, <<MemType(0, VK_MEMORY_PROPERTY_HOST_VISIBLE_BIT
                           + VK_MEMORY_PROPERTY_HOST_NON_COHERENT_BIT)>>)

\* several devices, each with the same plain answers
MainMock ==
    [deviceCounts   |-> 0..MaxDevices,
     deviceReported |-> 0..(MaxDevices + 1),
     apiVersions    |-> {PackVersion(1, 1, 3)},
     memoryLayouts  |-> {OneLayout},
     familyCounts   |-> {1},
     familyReported |-> {1},
     queueFlagWords |-> {VK_QUEUE_GRAPHICS_BIT + VK_QUEUE_COMPUTE_BIT,
                         VK_QUEUE_GRAPHICS_BIT + 16}]

Init0(m) ==
    /\ pc = "start"
    /\ result = "VK_SUCCESS"
    /\ instance = "none"
    /\ calls = <<>>
    /\ err = <<>>
    /\ out = <<>>
    /\ exitCode = -1
    /\ num_physical_devices = 0
    /\ physical_devices = <<>>
    /\ i = 0
    /\ idx = 0
    /\ pdev = VK_NULL_HANDLE
    /\ props = [apiVersion |-> Word32FromNat(0)]
    /\ mem_props = Layout(0, <<>>)
    /\ heap = 0
    /\ type = 0
    /\ num_queue_families = 0
    /\ queue_family_properties = <<>>
    /\ family = 0
    /\ qprops = ZeroFamily
    /\ queue_flags = 0
    /\ sep = ""
    /\ strbuf = <<>>
    /\ mock = m

Init == Init0(MainMock)

Next ==
    \/ CreateInstance
    \/ EnumeratePhysicalDevicesCount
    \/ EnumeratePhysicalDevicesData
    \/ DeviceLoop
    \/ DestroyInstance
    \/ GetPhysicalDeviceProperties
    \/ GetPhysicalDeviceMemoryProperties
    \/ HeapLoop
    \/ TypeLoop
    \/ GetQueueFamilyCount
    \/ GetQueueFamilyValues
    \/ FamilyLoop
    \/ FlagLoop

Spec == Init /\ [][Next]_vars

----------------------------------------------------------------------------
(* Backends with one device, each wide in one kind of answer. *)

KnownQueueBits == {VK_QUEUE_GRAPHICS_BIT, VK_QUEUE_COMPUTE_BIT, VK_QUEUE_DMA_BIT,
                   VK_QUEUE_SPARSE_MEMMGR_BIT, VK_QUEUE_EXTENDED_BIT}

RECURSIVE SumSet(_)
SumSet(S) == IF S = {} THEN 0 ELSE LET x == CHOOSE y \in S : TRUE
                                   IN x + SumSet(S \ {x})

\* every flag word made of the five known queue bits
KnownQueueWords == {SumSet(S) : S \in SUBSET KnownQueueBits}

\* the queue family counts may differ between the two calls
DeviceMock ==
    [deviceCounts   |-> {1},
     deviceReported |-> {1, 2},
     apiVersions    |-> {PackVersion(1, 1, 3)},
     memoryLayouts  |-> {OneLayout},
     familyCounts   |-> 0..MaxFamilies,
     familyReported |-> 0..(MaxFamilies + 1),
     queueFlagWords |-> {VK_QUEUE_GRAPHICS_BIT + VK_QUEUE_COMPUTE_BIT,
                         VK_QUEUE_DMA_BIT + 32}]

\* two queue families, each with any known flag word
FlagsMock ==
    [deviceCounts   |-> {1},
     deviceReported |-> {1},
     apiVersions    |-> {PackVersion(1, 1, 3)},
     memoryLayouts  |-> {OneLayout},
     familyCounts   |-> {2},
     familyReported |-> {2},
     queueFlagWords |-> KnownQueueWords]

\* every memory type flag word over the five property bits
MemoryFlagWords == 0..31

\* all lists of at most n memory types over the given heap indices and flags
RECURSIVE TypeLists(_, _, _)
TypeLists(n, heaps, flagWords) ==
    IF n = 0 THEN {<<>>}
    ELSE LET shorter == TypeLists(n - 1, heaps, flagWords)
         IN shorter \cup {Append(l, MemType(h, f)) :
                              l \in {x \in shorter : Len(x) = n - 1},
                              h \in heaps, f \in flagWords}

\* layouts of up to MaxHeaps heaps and MaxTypes types whose heap index may
\* also lie outside the heap list, and single-type layouts with every flag word
MemoryLayouts ==
    {Layout(nh, types) :
        nh \in 0..MaxHeaps,
        types \in TypeLists(MaxTypes, 0..MaxHeaps,
                            {VK_MEMORY_PROPERTY_HOST_VISIBLE_BIT
                             + VK_MEMORY_PROPERTY_HOST_NON_COHERENT_BIT})}
    \cup {Layout(1, <<MemType(0, f)>>) : f \in MemoryFlagWords}

MemoryMock ==
    [deviceCounts   |-> {1},
     deviceReported |-> {1},
     apiVersions    |-> {PackVersion(1, 1, 3)},
     memoryLayouts  |-> MemoryLayouts,
     familyCounts   |-> {1},
     familyReported |-> {1},
     queueFlagWords |-> {VK_QUEUE_GRAPHICS_BIT}]

VersionMajors  == {0, 1, 2, 511, 512, 1023}
VersionMinors  == {0, 1, 2, 511, 512, 1023}
VersionPatches == {0, 1, 3, 2047, 2048, 4095}

\* packed versions, 0x00401003 and the all-ones word
ApiVersions ==
    {PackVersion(a, b, c) :
        a \in VersionMajors, b \in VersionMinors, c \in VersionPatches}
    \cup {Word32FromNat(4198403), [b \in 0..31 |-> 1]}

VersionMock ==
    [deviceCounts   |-> {1},
     deviceReported |-> {1},
     apiVersions    |-> ApiVersions,
     memoryLayouts  |-> {OneLayout},
     familyCounts   |-> {1},
     familyReported |-> {1},
     queueFlagWords |-> {VK_QUEUE_GRAPHICS_BIT}]

InitDevice  == Init0(DeviceMock)
InitFlags   == Init0(FlagsMock)
InitMemory  == Init0(MemoryMock)
InitVersion == Init0(VersionMock)

SpecDevice     == InitDevice /\ [][Next]_vars
SpecQueueFlags == InitFlags /\ [][Next]_vars
SpecMemory     == InitMemory /\ [][Next]_vars
SpecVersion    == InitVersion /\ [][Next]_vars

----------------------------------------------------------------------------
(* Properties. *)

Last(s) == s[Len(s)]

IsDeviceLine(l) == l.kind = "device"
IsFamilyLine(l) == l.kind = "family"
IsTypeLine(l)   == l.kind = "type"
IsMemoryLine(l) == l.kind \in {"heap", "type"}

\* the indices printed on the device lines, in order
DeviceLineIndices ==
    LET lines == SelectSeq(out, IsDeviceLine)
    IN [k \in 1..Len(lines) |-> lines[k].idx]

Released(k) == calls[k].proc = "vkDestroyInstance"
Created(k)  == calls[k].proc = "vkCreateInstance"

\* the statuses die has a label for
ListedResults ==
    {"VK_SUCCESS", "VK_UNSUPPORTED", "VK_NOT_READY", "VK_TIMEOUT", "VK_EVENT_SET",
     "VK_EVENT_RESET", "VK_INCOMPLETE", "VK_ERROR_OUT_OF_HOST_MEMORY",
     "VK_ERROR_OUT_OF_DEVICE_MEMORY", "VK_ERROR_INITIALIZATION_FAILED",
     "VK_ERROR_DEVICE_LOST", "VK_ERROR_MEMORY_MAP_FAILED",
     "VK_ERROR_LAYER_NOT_PRESENT", "VK_ERROR_EXTENSION_NOT_PRESENT",
     "VK_ERROR_INCOMPATIBLE_DRIVER"}

StatusLabel(r) == IF r \in ListedResults THEN r ELSE "<unknown VkResult>"

\* C1: a status-returning driver call (any but vkDestroyInstance, whose
\* result is dropped) that returned a non-success status is the last driver
\* call of the run; the process has exited with code 1, and the last line on
\* stderr names that call and the label of its status.
C1_FailFast ==
    \A k \in 1..Len(calls) :
        (~Released(k) /\ calls[k].result # "VK_SUCCESS") =>
            /\ k = Len(calls)
            /\ pc = "exited"
            /\ exitCode = 1
            /\ err # <<>>
            /\ Last(err) = ErrLine("failed", calls[k].proc, StatusLabel(calls[k].result))

\* a run that died in the second device's queue family values query with a
\* status die has no label for
C1_Witness ==
    /\ pc = "exited"
    /\ exitCode = 1
    /\ Len(calls) > 7
    /\ Last(calls).proc = "vkGetPhysicalDeviceQueueFamilyProperties (values)"
    /\ Last(calls).pdev = <<2>>
    /\ Last(calls).result = "VK_ERROR_INVALID_VALUE"

\* C2: once the data call has succeeded reporting m devices after the count
\* call reported n > m, the list is the first m handles the driver wrote, the
\* first stderr line is the warning "decreased from n to m", exit code 1 can
\* only come from a later driver call that failed, the devices dumped so far
\* are those at indices 0.. in order and below m, and a run that returns 0
\* has dumped exactly the devices at indices 0..m-1.
C2_ShrinkTruncates ==
    (/\ Len(calls) >= 3
     /\ calls[3].result = "VK_SUCCESS"
     /\ calls[3].count[1] < calls[2].count[1]) =>
        LET n == calls[2].count[1]
            m == calls[3].count[1]
        IN /\ physical_devices = [k \in 1..m |-> k]
           /\ err # <<>>
           /\ err[1] = ErrLine("decreased", "physical devices", <<n, m>>)
           /\ exitCode = 1 => (Len(calls) > 3 /\ Last(calls).result # "VK_SUCCESS"
                               /\ Len(err) = 2)
           /\ exitCode # 1 => Len(err) = 1
           /\ \E d \in 0..m : DeviceLineIndices = [k \in 1..d |-> k - 1]
           /\ \A k \in 1..Len(calls) :
                 calls[k].pdev # <<>> => calls[k].pdev[1] \in 1..m
           /\ exitCode = 0 => DeviceLineIndices = [k \in 1..m |-> k - 1]
           /\ pc \in {"exited", "crashed"} \/ ENABLED Next

\* the count fell from 3 to 2 and the run returned 0 after two devices
C2_Witness ==
    /\ Len(calls) >= 3
    /\ calls[2].count = <<3>>
    /\ calls[3].count = <<2>>
    /\ exitCode = 0
    /\ DeviceLineIndices = <<0, 1>>

\* C4: every device query comes after a successful vkCreateInstance and
\* before any vkDestroyInstance; a run that ended with exit code 0 released
\* the instance exactly once, as its last driver call, after a device line
\* and a completed queue family dump for every device of the list; a run
\* that ended with exit code 1 never released it.
C4_Lifecycle ==
    /\ \A k \in 1..Len(calls) :
          (~Created(k) /\ ~Released(k)) =>
              /\ k > 1
              /\ Created(1)
              /\ calls[1].result = "VK_SUCCESS"
              /\ \A j \in 1..k : ~Released(j)
    /\ \A k \in 1..Len(calls) : Released(k) => (k = Len(calls) /\ exitCode = 0)
    /\ exitCode = 0 =>
          /\ pc = "exited"
          /\ calls # <<>>
          /\ Released(Len(calls))
          /\ Cardinality({k \in 1..Len(calls) : Released(k)}) = 1
          /\ instance = "destroyed"
          /\ DeviceLineIndices = [k \in 1..Len(physical_devices) |-> k - 1]
          /\ i = Len(physical_devices)
          /\ Cardinality({k \in 1..Len(calls) :
                 /\ calls[k].proc = "vkGetPhysicalDeviceQueueFamilyProperties (values)"
                 /\ calls[k].result = "VK_SUCCESS"}) = Len(physical_devices)
    /\ exitCode = 1 =>
          /\ \A k \in 1..Len(calls) : ~Released(k)
          /\ instance # "destroyed"

\* a run over three devices that returned 0
C4_Witness ==
    /\ exitCode = 0
    /\ Len(physical_devices) = 3
    /\ Last(calls).proc = "vkDestroyInstance"
    /\ DeviceLineIndices = <<0, 1, 2>>

----------------------------------------------------------------------------
(* Queue family capabilities. *)

BitSet(w, pos) == (w \div 2^pos) % 2 = 1

PopCount(w) == Cardinality({pos \in 0..30 : BitSet(w, pos)})

\* the five capability flags by bit position
KnownQueuePositions == {0, 1, 2, 3, 30}

QueueBitLabel(pos) ==
    CASE pos = 0 -> "GRAPHICS"
      [] pos = 1 -> "COMPUTE"
      [] pos = 2 -> "DMA"
      [] pos = 3 -> "SPARSE"
      [] pos = 30 -> "EXT"
      [] OTHER -> "?"

KnownOnly(w) == \A pos \in 0..30 : BitSet(w, pos) => pos \in KnownQueuePositions

\* the labels of the bits of w at positions pos.., ascending, joined by '+'
RECURSIVE CapsFrom(_, _, _)
CapsFrom(w, pos, lead) ==
    IF pos > 30 THEN ""
    ELSE IF BitSet(w, pos)
         THEN lead \o QueueBitLabel(pos) \o CapsFrom(w, pos + 1, "+")
         ELSE CapsFrom(w, pos + 1, lead)

ExpectedCaps(w) == CapsFrom(w, 0, "")

\* C5: for a flag word made of the five known bits, the loop has run one
\* iteration per bit already cleared, clears only bits of the word, and what
\* it has built is the start of the expected string; when the family's line
\* is printed no bit remains, one iteration per set bit has run, and the
\* line is the labels of the set bits in ascending bit position joined by
\* '+' (GRAPHICS+COMPUTE for GRAPHICS|COMPUTE, empty for the empty word).
C5_QueueCapabilities ==
    /\ (pc = "flag_loop" /\ KnownOnly(qprops.queueFlags)) =>
          /\ BitAnd(queue_flags, qprops.queueFlags) = queue_flags
          /\ Len(strbuf) = 2 * (PopCount(qprops.queueFlags) - PopCount(queue_flags))
          /\ Text(strbuf) \o CapsFrom(queue_flags, 0, sep)
                = ExpectedCaps(qprops.queueFlags)
    /\ (pc = "family_loop" /\ family > 0 /\ KnownOnly(qprops.queueFlags)) =>
          /\ queue_flags = 0
          /\ Last(out).kind = "family"
          /\ Last(out).idx = family - 1
          /\ Len(Last(out).text) = 2 * PopCount(qprops.queueFlags)
          /\ Text(Last(out).text) = ExpectedCaps(qprops.queueFlags)
          /\ qprops.queueFlags = VK_QUEUE_GRAPHICS_BIT + VK_QUEUE_COMPUTE_BIT
                => Text(Last(out).text) = "GRAPHICS+COMPUTE"
          /\ qprops.queueFlags = 0 => Text(Last(out).text) = ""

\* the line of a second family, with GRAPHICS, COMPUTE and EXT, has been
\* printed after the line of a first one with DMA and SPARSE
C5_Witness ==
    /\ pc = "family_loop"
    /\ family = 2
    /\ queue_family_properties[1].queueFlags
          = VK_QUEUE_DMA_BIT + VK_QUEUE_SPARSE_MEMMGR_BIT
    /\ qprops.queueFlags = VK_QUEUE_GRAPHICS_BIT + VK_QUEUE_COMPUTE_BIT
                           + VK_QUEUE_EXTENDED_BIT
    /\ Text(Last(out).text) = "GRAPHICS+COMPUTE+EXT"

\* C6: a set bit outside the five known flags makes the program fail fast:
\* the flag loop never gets past such a bit, and no line is printed for a
\* family whose flag word holds one.
C6_UnknownBitFailsFast ==
    /\ pc = "flag_loop" => KnownOnly(qprops.queueFlags - queue_flags)
    /\ (pc = "family_loop" /\ family > 0) => KnownOnly(qprops.queueFlags)

----------------------------------------------------------------------------
(* The two-phase queue family query. *)

\* the counts of the two queue family calls of the device being dumped
FamilyCountAsked == calls[Len(calls) - 1].count[1]
FamilyCountGiven == Last(calls).count[1]

InFamilyLoop == pc \in {"family_loop", "flag_loop"}

\* C3: as for the devices, when the values call reports fewer queue families
\* than the count call, only the families below the smaller count are gone
\* through and a warning about the queue families is on stderr.
C3_FamilyShrinkWarns ==
    (InFamilyLoop /\ FamilyCountGiven < FamilyCountAsked) =>
        /\ family <= FamilyCountGiven
        /\ \E k \in 1..Len(err) :
              err[k].kind = "decreased" /\ err[k].proc # "physical devices"

\* C10: whatever count the values call reports, a device handle passed to
\* DumpPhysicalDevice lies below the allocated size and was written by the
\* driver, and a queue family record read in the loop lies below the
\* allocated size and was written by the driver.
C10_ReadsOnlyDriverWritten ==
    /\ pc = "props" =>
          /\ i < calls[2].count[1]
          /\ i < calls[3].count[1]
          /\ pdev # VK_NULL_HANDLE
    /\ pc = "flag_loop" =>
          /\ family < Len(queue_family_properties)
          /\ family < FamilyCountGiven
          /\ qprops = queue_family_properties[family + 1]
          /\ qprops # ZeroFamily

----------------------------------------------------------------------------
(* Memory types. *)

\* a piece without its leading separator
PieceLabel(p) ==
    CASE p = " NON_COHERENT" -> "NON_COHERENT"
      [] p = " UNCACHED" -> "UNCACHED"
      [] p = " WRITE_COMBINED" -> "WRITE_COMBINED"
      [] p = " LAZILY_ALLOCATED" -> "LAZILY_ALLOCATED"
      [] OTHER -> p

Labels(text) == [j \in 1..Len(text) |-> PieceLabel(text[j])]

\* the property bits by position, in the fixed order
MemoryBitLabels ==
    <<"HOST_VISIBLE", "NON_COHERENT", "UNCACHED", "WRITE_COMBINED", "LAZILY_ALLOCATED">>

RECURSIVE MemoryLabelsFrom(_, _)
MemoryLabelsFrom(f, pos) ==
    IF pos > 4 THEN <<>>
    ELSE (IF BitSet(f, pos) THEN <<MemoryBitLabels[pos + 1]>> ELSE <<>>)
         \o MemoryLabelsFrom(f, pos + 1)

\* the lines printed since the last device line
CurrentDeviceLines ==
    LET starts == {k \in 1..Len(out) : out[k].kind = "device"}
    IN IF starts = {} THEN <<>>
       ELSE SubSeq(out, (CHOOSE k \in starts : \A j \in starts : j <= k) + 1, Len(out))

MemoryLines == SelectSeq(CurrentDeviceLines, IsMemoryLine)

FlagsOfType(t) == mem_props.memoryTypes[t + 1].propertyFlags

\* mem_props holds the answer for the device whose lines are being printed
MemoryKnown == pc \in {"heap_loop", "type_loop", "qcount", "qvalues",
                       "family_loop", "flag_loop"}

\* C7: a memory type line contains DEVICE_ONLY exactly when the flag word
\* equals VK_MEMORY_PROPERTY_DEVICE_ONLY; otherwise its labels are those of
\* the set bits and of no other, in the order HOST_VISIBLE, NON_COHERENT,
\* UNCACHED, WRITE_COMBINED, LAZILY_ALLOCATED; HOST_VISIBLE|HOST_NON_COHERENT
\* prints "HOST_VISIBLE NON_COHERENT".
C7_MemoryTypeFlags ==
    MemoryKnown =>
        \A k \in 1..Len(MemoryLines) :
            MemoryLines[k].kind = "type" =>
                LET f == FlagsOfType(MemoryLines[k].idx)
                    labels == Labels(MemoryLines[k].text)
                IN /\ (\E j \in 1..Len(labels) : labels[j] = "DEVICE_ONLY")
                         <=> (f = VK_MEMORY_PROPERTY_DEVICE_ONLY)
                   /\ f # VK_MEMORY_PROPERTY_DEVICE_ONLY
                         => labels = MemoryLabelsFrom(f, 0)
                   /\ f = VK_MEMORY_PROPERTY_HOST_VISIBLE_BIT
                          + VK_MEMORY_PROPERTY_HOST_NON_COHERENT_BIT
                         => Text(MemoryLines[k].text) = "HOST_VISIBLE NON_COHERENT"

\* the line of a type with UNCACHED and LAZILY_ALLOCATED only, and the line
\* of a DEVICE_ONLY type
C7_Witness ==
    /\ pc = "qcount"
    /\ Len(MemoryLines) = 2
    /\ MemoryLines[2].kind = "type"
    /\ FlagsOfType(MemoryLines[2].idx) = 20
    /\ MemoryLines[2].text = <<" UNCACHED", " LAZILY_ALLOCATED">>

\* the heap line a memory line stands under (-1: none)
OwnerHeap(lines, k) ==
    LET heaps == {j \in 1..k : lines[j].kind = "heap"}
    IN IF heaps = {} THEN -1
       ELSE lines[CHOOSE j \in heaps : \A x \in heaps : x <= j].idx

TypeLinesOf(lines, t) == {k \in 1..Len(lines) : lines[k].kind = "type" /\ lines[k].idx = t}

MemoryDumped == pc \in {"qcount", "qvalues", "family_loop", "flag_loop"}

\* C9: in a device's memory listing every type line stands under the heap
\* its heapIndex names and no type is printed twice; types under one heap
\* ascend; a type whose heapIndex is no index of the heap list has no line;
\* and once the listing is complete every type with a valid heapIndex has
\* exactly one line.
C9_TypesUnderOwningHeap ==
    MemoryKnown =>
        LET lines == MemoryLines
        IN /\ \A k \in 1..Len(lines) :
                 lines[k].kind = "type" =>
                     /\ lines[k].idx < mem_props.memoryTypeCount
                     /\ OwnerHeap(lines, k)
                           = mem_props.memoryTypes[lines[k].idx + 1].heapIndex
                     /\ OwnerHeap(lines, k) \in 0..(mem_props.memoryHeapCount - 1)
           /\ \A k1, k2 \in 1..Len(lines) :
                 (/\ k1 < k2
                  /\ lines[k1].kind = "type"
                  /\ lines[k2].kind = "type"
                  /\ OwnerHeap(lines, k1) = OwnerHeap(lines, k2))
                     => lines[k1].idx < lines[k2].idx
           /\ \A t \in 0..(mem_props.memoryTypeCount - 1) :
                 IF mem_props.memoryTypes[t + 1].heapIndex
                        \in 0..(mem_props.memoryHeapCount - 1)
                 THEN /\ Cardinality(TypeLinesOf(lines, t)) <= 1
                      /\ MemoryDumped => Cardinality(TypeLinesOf(lines, t)) = 1
                 ELSE TypeLinesOf(lines, t) = {}

\* two heaps; type 0 belongs to heap 1, type 1 to no heap of the list
C9_Witness ==
    /\ pc = "qcount"
    /\ mem_props.memoryHeapCount = 2
    /\ mem_props.memoryTypeCount = 2
    /\ mem_props.memoryTypes[1].heapIndex = 1
    /\ mem_props.memoryTypes[2].heapIndex = 2
    /\ Len(MemoryLines) = 3
    /\ MemoryLines[3].kind = "type"
    /\ MemoryLines[3].idx = 0

----------------------------------------------------------------------------
(* The version triple. *)

\* the number held in bits lo..hi of a word
RECURSIVE BitsValue(_, _, _)
BitsValue(v, lo, hi) ==
    IF hi < lo THEN 0 ELSE v[hi] * 2^(hi - lo) + BitsValue(v, lo, hi - 1)

\* the device is known, its line printed
VersionPrinted == pc \in {"memprops", "heap_loop", "type_loop", "qcount", "qvalues",
                          "family_loop", "flag_loop"}

\* C8: the triple on the device line is (bits 31..22, bits 21..12, bits
\* 11..0) of apiVersion; a word packed from major, minor, patch prints those
\* three values; 0x00401003 prints 1.1.3.
C8_VersionTriple ==
    VersionPrinted =>
        LET v == props.apiVersion
            l == Last(SelectSeq(out, IsDeviceLine))
        IN /\ l.idx = idx
           /\ l.text = <<BitsValue(v, 22, 31), BitsValue(v, 12, 21), BitsValue(v, 0, 11)>>
           /\ \A a \in VersionMajors, b \in VersionMinors, c \in VersionPatches :
                 v = PackVersion(a, b, c) => l.text = <<a, b, c>>
           /\ v = Word32FromNat(4198403) => l.text = <<1, 1, 3>>

\* the version 1023.512.4095 has been printed
C8_Witness ==
    /\ pc = "memprops"
    /\ props.apiVersion = PackVersion(1023, 512, 4095)
    /\ Last(out).text = <<1023, 512, 4095>>

====
